---------------------------- MODULE Spec2Model ----------------------------
(***************************************************************************)
(* A model of the shielded-memory crate (src/src/lib.rs).                  *)
(*                                                                         *)
(* Shielded owns three byte vectors (prekey, nonce, memory).  new() seals  *)
(* the caller's buffer in place, unshield() opens it in place and hands    *)
(* out an UnShielded view that mutably borrows the container, and the      *)
(* view's Drop calls shield() again.                                       *)
(*                                                                         *)
(* The cipher, the hash and the random source belong to the ring crate.    *)
(* They are modelled by small computed stand-ins with the same shape:      *)
(*   - ChaCha20: a keystream depending on key, nonce and position, added   *)
(*     to the data byte by byte (subtracted to decrypt);                   *)
(*   - Poly1305: a polynomial over the AAD, the ciphertext and their       *)
(*     lengths, evaluated at a key/nonce dependent point modulo a prime,   *)
(*     masked by a key/nonce dependent value;                              *)
(*   - SHA512: an absorbing byte hash, truncated to the key length;        *)
(*   - SystemRandom: a nondeterministic choice among a few byte streams,   *)
(*     or failure.                                                         *)
(* Byte vectors are sequences over 0..255.  The lengths of prekey, nonce   *)
(* and key are scaled down (16384, 12 and 32 bytes in the program).        *)
(***************************************************************************)
EXTENDS Integers, Sequences, FiniteSets, TLC

\* ------------------------------------------------------------------ bounds
\* Longest buffer handed to Shielded::new.
MaxLen == 2
\* Most views (successful unshield calls) in one run.
MaxViews == 2
\* const SHIELD_PREKEY_LEN: usize = 16 * 1024, scaled down.
SHIELD_PREKEY_LEN == 1
\* aead::NONCE_LEN (12 for ChaCha20-Poly1305), scaled down.
NONCE_LEN == 1
\* SHIELD_CIPHER.key_len() (32 for ChaCha20-Poly1305), scaled down.
KEY_LEN == 1
\* Most operations on a OneNonceSequence used on its own.
MaxSeqOps == 5
\* Bytes the caller's buffers are made of.
InputBytes == {0, 104}
\* The byte streams the random source can produce.
RngSeeds == {1, 2}

\* --------------------------------------------------------------- constants
MAGIC_BYTE == 223

\* SHIELD_CIPHER.tag_len(): the tag holds the masked key and nonce and two
\* bytes of the polynomial's value.
TAG_LEN == KEY_LEN + NONCE_LEN + 2
\* Output length of SHIELD_PREKEY_HASH: twice the key length, as for SHA512
\* and ChaCha20-Poly1305 (64 and 32).
DIGEST_LEN == 2 * KEY_LEN
\* The prime of the polynomial authenticator (2^130 - 5 for Poly1305).
POLY_PRIME == 257

\* ------------------------------------------------------------------ bytes
Byte == 0 .. 255

\* vec![b; n]
Vec(b, n) == [i \in 1 .. n |-> b]

\* The sum of the first n bytes of s.
RECURSIVE SumTo(_, _)
SumTo(s, n) == IF n = 0 THEN 0 ELSE (SumTo(s, n - 1) + s[n]) % 65536

SumSeq(s) == SumTo(s, Len(s))

\* All byte vectors of length at most n over the bytes in S.
BufsUpTo(S, n) == UNION {[1 .. k -> S] : k \in 0 .. n}

\* Result<_, ring::error::Unspecified>
Ok(v) == [ok |-> TRUE, val |-> v]
Unspecified == [ok |-> FALSE, val |-> <<>>]

\* ----------------------------------------------------------- random source
\* What one call of SystemRandom::fill can do: 0 is failure, a seed is the
\* byte stream it writes.
RngOutcomes == {0} \cup RngSeeds

\* The n bytes the random source writes under seed rng.
RngStream(rng, n) == [i \in 1 .. n |-> (rng * 83 + i * 57) % 256]

\* rng.fill(&mut k)
fill(rng, k) ==
    IF rng = 0 THEN Unspecified ELSE Ok(RngStream(rng, Len(k)))

\* new_prekey allocating one byte less than SHIELD_PREKEY_LEN.
new_prekey_short(rng) == fill(rng, Vec(MAGIC_BYTE, SHIELD_PREKEY_LEN - 1))

\* new_prekey with the result of fill ignored: when the random source fails,
\* the placeholder bytes come back as the prekey.
new_prekey_unchecked(rng) ==
    IF rng = 0 THEN Ok(Vec(MAGIC_BYTE, SHIELD_PREKEY_LEN))
    ELSE fill(rng, Vec(MAGIC_BYTE, SHIELD_PREKEY_LEN))

\* fn new_prekey(rng): the filled vector, or the panic of expect().
new_prekey(rng) == fill(rng, Vec(MAGIC_BYTE, SHIELD_PREKEY_LEN))

\* new_nonce with the fill forgotten: the placeholder is returned.
new_nonce_unfilled(rng) ==
    IF rng = 0 THEN Unspecified ELSE Ok(Vec(MAGIC_BYTE, NONCE_LEN))

\* fn new_nonce(rng)
new_nonce(rng) == fill(rng, Vec(MAGIC_BYTE, NONCE_LEN))

\* -------------------------------------------------------------------- hash
RECURSIVE Absorb(_, _, _)
Absorb(m, i, h) ==
    IF i > Len(m) THEN h
    ELSE Absorb(m, i + 1, (h * 33 + m[i] + i) % 256)

\* digest::digest(&SHIELD_PREKEY_HASH, m)
digest(m) == [j \in 1 .. DIGEST_LEN |-> Absorb(m, 1, (j * 17 + 5) % 256)]

\* fn prekey_to_key(prekey): the digest cut to the cipher's key length.
prekey_to_key(prekey) == SubSeq(digest(prekey), 1, KEY_LEN)

\* ------------------------------------------------------------------ cipher
\* The keystream byte at position i.
Keystream(key, nonce, i) ==
    (SumSeq(key) * 7 + SumSeq(nonce) * 13 + i * 31 + 1) % 256

\* The stream cipher: the keystream is added to the plaintext byte by byte
\* and subtracted from the ciphertext.  (The arguments are bound once, as
\* elements of singleton sets, here and below: TLC evaluates an operator's
\* argument anew at each of its uses.)
Encrypt(key, nonce, data) ==
    CHOOSE c \in {[i \in 1 .. Len(d) |-> (d[i] + Keystream(k, n, i)) % 256] :
                     k \in {key}, n \in {nonce}, d \in {data}} : TRUE

Decrypt(key, nonce, data) ==
    CHOOSE c \in {[i \in 1 .. Len(d) |-> (d[i] + 256 - Keystream(k, n, i)) % 256] :
                     k \in {key}, n \in {nonce}, d \in {data}} : TRUE

\* The authenticator's evaluation point, never 0.
PolyR(key, nonce) == 1 + ((SumSeq(key) * 3 + SumSeq(nonce) * 5) % 256)

\* The polynomial with coefficients m[1 .. n] at the point r, by Horner's rule.
RECURSIVE Poly(_, _, _)
Poly(r, m, n) ==
    IF n = 0 THEN 0
    ELSE ((Poly(r, m, n - 1) + m[n]) * r) % POLY_PRIME

\* What is authenticated: the AAD, the ciphertext and both lengths.
MacData(aad, ct) == aad \o ct \o <<Len(aad) % 256, Len(ct) % 256>>

\* The mask of the authenticator, one byte per key and nonce byte.
PolyS(key, nonce) ==
    LET kn == key \o nonce
    IN  [i \in 1 .. Len(kn) |-> (kn[i] + 7 * i + 1) % 256]

\* The tag for the polynomial's value p: the mask, then p in two bytes.
TagBytes(key, nonce, p) == PolyS(key, nonce) \o <<p % 256, p \div 256>>

\* The tag of ciphertext ct under key, nonce and aad.
Tag(key, nonce, aad, ct) ==
    CHOOSE t \in {TagBytes(k, n, Poly(r, m, Len(m))) :
                     k \in {key}, n \in {nonce}, r \in {PolyR(key, nonce)},
                     m \in {MacData(aad, ct)}} : TRUE

\* struct OneNonceSequence(Option<Nonce>)
OneNonceSequence(nonce) == [some |-> TRUE, val |-> nonce]

\* advance reading the nonce without taking it: self.0.clone().
advance_reusable(ns) ==
    [res |-> IF ns.some THEN Ok(ns.val) ELSE Unspecified,
     ns  |-> ns]

\* NonceSequence::advance: self.0.take().ok_or(Unspecified); the result and
\* the sequence as it is left.
advance(ns) ==
    [res |-> IF ns.some THEN Ok(ns.val) ELSE Unspecified,
     ns  |-> [some |-> FALSE, val |-> <<>>]]

\* UnboundKey::new(&SHIELD_CIPHER, &key)
UnboundKey(key) == IF Len(key) = KEY_LEN THEN Ok(key) ELSE Unspecified

\* Nonce::try_assume_unique_for_key(bytes)
NonceFrom(bytes) == IF Len(bytes) = NONCE_LEN THEN Ok(bytes) ELSE Unspecified

\* SealingKey::seal_in_place_append_tag(aad, in_out): takes the nonce from
\* the sequence, encrypts all of in_out and appends the tag.
seal_in_place_append_tag(key, ns, aad, in_out) ==
    LET n == advance(ns).res
    IN  IF ~n.ok THEN Unspecified
        ELSE CHOOSE r \in {Ok(ct \o Tag(key, n.val, aad, ct)) :
                              ct \in {Encrypt(key, n.val, in_out)}} : TRUE

\* OpeningKey::open_in_place(aad, in_out): takes the nonce from the sequence,
\* checks the tag at the end of in_out and decrypts what precedes it.  On
\* success in_out holds the plaintext followed by the tag's bytes; on failure
\* the ciphertext part is left as it was or zeroed (zero).
open_in_place(key, ns, aad, in_out, zero) ==
    LET n == advance(ns).res
    IN  IF ~n.ok \/ Len(in_out) < TAG_LEN
        THEN [ok |-> FALSE, plaintext |-> <<>>, in_out |-> in_out]
        ELSE LET ctlen == Len(in_out) - TAG_LEN
                 ct    == SubSeq(in_out, 1, ctlen)
                 tag   == SubSeq(in_out, ctlen + 1, Len(in_out))
             IN  IF Tag(key, n.val, aad, ct) = tag
                 THEN CHOOSE r \in {[ok |-> TRUE, plaintext |-> pt,
                                      in_out |-> pt \o tag] :
                                         pt \in {Decrypt(key, n.val, ct)}} : TRUE
                 ELSE [ok |-> FALSE, plaintext |-> <<>>,
                       in_out |-> IF zero THEN Vec(0, ctlen) \o tag ELSE in_out]

\* One record of the cipher-call log.
CipherCall(op, key, nonce, aad, ok) ==
    [op |-> op, key |-> key, nonce |-> nonce, aad |-> aad, ok |-> ok]


\* --------------------------------------------------------------- the crate
\* The outcome of a function that may panic: the message of the expect()
\* that failed ("" when none did), the container as it is left, the cipher
\* calls made, the functions run and the vectors the random source returned.
Outcome(panic, self, made, fns, drawn) ==
    [panic |-> panic, self |-> self, made |-> made, ran |-> fns,
     drawn |-> drawn]

\* self.prekey = prekey only: the nonce of the seal is not stored.
StoreKeysNoNonce(self, prekey, nonce_bytes, memory) ==
    [prekey |-> prekey, nonce |-> self.nonce, memory |-> memory]

\* self.nonce = nonce_bytes only: the prekey of the seal is not stored.
StoreKeysNoPrekey(self, prekey, nonce_bytes, memory) ==
    [prekey |-> self.prekey, nonce |-> nonce_bytes, memory |-> memory]

\* The end of shield: memory sealed in place, self.prekey = prekey,
\* self.nonce = nonce_bytes.
StoreKeys(self, prekey, nonce_bytes, memory) ==
    [prekey |-> prekey, nonce |-> nonce_bytes, memory |-> memory]

\* fn shield(&mut self), with what the two draws of the random source do.
shield(self, rngPrekey, rngNonce) ==
    LET prekey == new_prekey(rngPrekey)
        got1   == <<RngStream(rngPrekey, SHIELD_PREKEY_LEN)>>
        got2   == got1 \o <<RngStream(rngNonce, NONCE_LEN)>>
    IN  IF ~prekey.ok
        THEN Outcome("rng fill prekey", self, <<>>, <<"shield">>, <<>>)
        ELSE
        LET nonce_bytes == new_nonce(rngNonce)
        IN  IF ~nonce_bytes.ok
            THEN Outcome("rng fill", self, <<>>, <<"shield">>, got1)
            ELSE
            LET key         == prekey_to_key(prekey.val)
                unbound_key == UnboundKey(key)
                nonce       == NonceFrom(nonce_bytes.val)
            IN  IF ~unbound_key.ok
                THEN Outcome("new SealingKey", self, <<>>, <<"shield">>, got2)
                ELSE IF ~nonce.ok
                THEN Outcome("new Nonce", self, <<>>, <<"shield">>, got2)
                ELSE
                LET nonce_sequence == OneNonceSequence(nonce.val)
                    aad    == prekey.val
                    sealed == seal_in_place_append_tag(
                                  unbound_key.val, nonce_sequence, aad, self.memory)
                    call   == CipherCall("seal", key, nonce.val, aad, sealed.ok)
                IN  IF ~sealed.ok
                    THEN Outcome("seal in place", self, <<call>>, <<"shield">>,
                                 got2)
                    ELSE Outcome("",
                                 StoreKeys(self, prekey.val, nonce_bytes.val,
                                           sealed.val),
                                 <<call>>, <<"shield">>, got2)

\* pub fn new(buf): the container with its placeholders, then shield().
new(b, rngPrekey, rngNonce) ==
    LET o == shield([prekey |-> Vec(MAGIC_BYTE, SHIELD_PREKEY_LEN),
                     nonce  |-> Vec(MAGIC_BYTE, NONCE_LEN),
                     memory |-> b],
                    rngPrekey, rngNonce)
    IN  [o EXCEPT !.ran = <<"new">> \o @]

\* OpenStored opening with the placeholder nonce instead of the stored one.
OpenStoredPlaceholderNonce(self, zero) ==
    LET key == prekey_to_key(self.prekey)
        n   == Vec(MAGIC_BYTE, NONCE_LEN)
        o   == open_in_place(key, OneNonceSequence(n), self.prekey,
                             self.memory, zero)
    IN  [opened |-> o,
         call   |-> CipherCall("open", key, n, self.prekey, o.ok)]

\* OpenStored authenticating nothing but the memory: Aad::empty().
OpenStoredEmptyAad(self, zero) ==
    LET key == prekey_to_key(self.prekey)
        o   == open_in_place(key, OneNonceSequence(self.nonce), <<>>,
                             self.memory, zero)
    IN  [opened |-> o,
         call   |-> CipherCall("open", key, self.nonce, <<>>, o.ok)]

\* The cipher call of unshield: the stored prekey hashed to the key, the
\* stored nonce, the stored prekey as AAD, on the stored memory.
OpenStored(self, zero) ==
    LET key == prekey_to_key(self.prekey)
        o   == open_in_place(key, OneNonceSequence(self.nonce), self.prekey,
                             self.memory, zero)
    IN  [opened |-> o,
         call   |-> CipherCall("open", key, self.nonce, self.prekey, o.ok)]

\* unshield with the result of open_in_place ignored: a view comes back
\* whatever the tag check said.
unshield_unverified(self, zero) ==
    LET o == OpenStored(self, zero)
    IN  [out |-> Outcome("", [self EXCEPT !.memory = o.opened.in_out],
                         <<o.call>>, <<"unshield">>, <<>>),
         plaintext_len |-> Len(self.memory) - TAG_LEN]

\* unshield moving the stored nonce out of the container, the placeholder
\* left in its place: mem::replace(&mut self.nonce, vec![MAGIC_BYTE; ..]).
unshield_takes_nonce(self, zero) ==
    LET o    == OpenStored(self, zero)
        left == [self EXCEPT !.memory = o.opened.in_out,
                             !.nonce = Vec(MAGIC_BYTE, NONCE_LEN)]
    IN  IF ~o.opened.ok
        THEN [out |-> Outcome("open in place", left, <<o.call>>, <<"unshield">>,
                              <<>>),
              plaintext_len |-> 0]
        ELSE [out |-> Outcome("", left, <<o.call>>, <<"unshield">>, <<>>),
              plaintext_len |-> Len(o.opened.plaintext)]

\* pub fn unshield(&mut self): the outcome and, when it did not panic, the
\* view's plaintext_len.
unshield(self, zero) ==
    IF ~UnboundKey(prekey_to_key(self.prekey)).ok
    THEN [out |-> Outcome("new OpeningKey", self, <<>>, <<"unshield">>, <<>>),
          plaintext_len |-> 0]
    ELSE IF ~NonceFrom(self.nonce).ok
    THEN [out |-> Outcome("new Nonce", self, <<>>, <<"unshield">>, <<>>),
          plaintext_len |-> 0]
    ELSE
    LET o    == OpenStored(self, zero)
        left == [self EXCEPT !.memory = o.opened.in_out]
    IN  IF ~o.opened.ok
        THEN [out |-> Outcome("open in place", left, <<o.call>>, <<"unshield">>,
                              <<>>),
              plaintext_len |-> 0]
        ELSE [out |-> Outcome("", left, <<o.call>>, <<"unshield">>, <<>>),
              plaintext_len |-> Len(o.opened.plaintext)]

\* as_ref returning all of the memory: &self.shielded.memory[..]
as_ref_whole(self, view) == self.memory

\* impl AsRef<[u8]> for UnShielded: &self.shielded.memory[..self.plaintext_len]
as_ref(self, view) == SubSeq(self.memory, 1, view.plaintext_len)

\* A Drop that does not call shield.
drop_forgets(self, rngPrekey, rngNonce) ==
    Outcome("", self, <<>>, <<"drop">>, <<>>)

\* impl Drop for UnShielded: self.shielded.shield()
drop(self, rngPrekey, rngNonce) ==
    LET o == shield(self, rngPrekey, rngNonce)
    IN  [o EXCEPT !.ran = <<"drop">> \o @]

\* A heap vector going out of scope, or replaced by an assignment: Vec's Drop
\* hands the allocation back with the bytes it holds; what names the value.
Release(what, bytes) == [what |-> what, bytes |-> bytes]

\* What a call of shield on self with outcome o releases.  When it returns:
\* the old self.prekey and self.nonce, replaced by the assignments, then the
\* local key at the end of the scope.  When it panics: the locals that
\* exist, in the unwinding.
shield_released(self, o) ==
    LET key == IF Len(o.drawn) = 2
               THEN <<Release("key", prekey_to_key(o.drawn[1]))>>
               ELSE <<>>
    IN  IF o.panic = ""
        THEN <<Release("prekey", self.prekey), Release("nonce", self.nonce)>>
                 \o key
        ELSE key \o [i \in 1 .. Len(o.drawn) |->
                        Release(IF i = 1 THEN "prekey" ELSE "nonce", o.drawn[i])]

\* What Shielded::new(b) with outcome o releases: what its shield call does
\* and, when that panics, the local container with the caller's buffer.
new_released(b, o) ==
    shield_released([prekey |-> Vec(MAGIC_BYTE, SHIELD_PREKEY_LEN),
                     nonce  |-> Vec(MAGIC_BYTE, NONCE_LEN),
                     memory |-> b], o)
        \o (IF o.panic = "" THEN <<>>
            ELSE <<Release("prekey", o.self.prekey),
                   Release("nonce", o.self.nonce),
                   Release("memory", o.self.memory)>>)

\* What a call of unshield on self releases: the local key, when it returns
\* and when it panics alike.
unshield_released(self) == <<Release("key", prekey_to_key(self.prekey))>>

\* One bit of a byte flipped (bit in 0 .. 7).
FlipBit(b, bit) ==
    IF (b \div (2 ^ bit)) % 2 = 1 THEN b - 2 ^ bit ELSE b + 2 ^ bit

\* ------------------------------------------------------------------- state
VARIABLES
    buf,          \* the buffer the caller passes to Shielded::new
    constructed,  \* Shielded::new has returned the container
    shielded,     \* the Shielded struct: prekey, nonce, memory
    views,        \* the live UnShielded values borrowing the container
    nviews,       \* how many views unshield has produced so far
    out,          \* the slice as_ref returned from the live view
    failure,      \* "" while running, else the message of the panic
    calls,        \* every cipher call made so far, in order
    ran,          \* the functions the last operation ran
    drawn,        \* the vectors the random source returned in the last operation
    tampered,     \* a bit of the sealed container was flipped
    released,     \* the heap vectors the last operation released, as released
    nonce_sequence, \* a OneNonceSequence used on its own
    advances      \* what was done with nonce_sequence, with the results

vars == <<buf, constructed, shielded, views, nviews, out, failure, calls,
          ran, drawn, tampered, released, nonce_sequence, advances>>

\* The variables of the container and its caller.
crate == <<buf, constructed, shielded, views, nviews, out, failure, calls,
           ran, drawn, tampered, released>>

None == [some |-> FALSE, val |-> <<>>]
Some(v) == [some |-> TRUE, val |-> v]

Init ==
    /\ buf \in BufsUpTo(InputBytes, MaxLen)
    /\ constructed = FALSE
    /\ shielded = [prekey |-> <<>>, nonce |-> <<>>, memory |-> <<>>]
    /\ views = <<>>
    /\ nviews = 0
    /\ out = None
    /\ failure = ""
    /\ calls = <<>>
    /\ ran = <<>>
    /\ drawn = <<>>
    /\ tampered = FALSE
    /\ released = <<>>
    /\ nonce_sequence = None
    /\ advances = <<>>

\* No expect() has panicked: a panic ends the run.
Running == failure = ""

\* The container used without the borrow being checked.
BorrowUnchecked == TRUE

\* UnShielded holds &'a mut Shielded: while a view lives, the borrow checker
\* accepts no other use of the container.
Borrowable == views = <<>>

\* The caller constructs the container: Shielded::new(buf).
New ==
    /\ Running /\ ~constructed /\ ran = <<>>
    /\ \E rp \in RngOutcomes, rn \in RngOutcomes :
        \E o \in {new(buf, rp, rn)} :
            /\ shielded' = o.self
            /\ failure' = o.panic
            /\ constructed' = (o.panic = "")
            /\ calls' = calls \o o.made
            /\ ran' = o.ran
            /\ drawn' = o.drawn
            /\ released' = new_released(buf, o)
    /\ UNCHANGED <<buf, views, nviews, out, tampered, nonce_sequence, advances>>

\* The caller asks for a view: shielded.unshield().
Unshield ==
    /\ Running /\ constructed
    /\ Borrowable
    /\ nviews < MaxViews
    /\ \E zero \in BOOLEAN :
        \E u \in {unshield(shielded, zero)} :
            /\ shielded' = u.out.self
            /\ failure' = u.out.panic
            /\ calls' = calls \o u.out.made
            /\ ran' = u.out.ran
            /\ drawn' = u.out.drawn
            /\ IF u.out.panic = ""
               THEN /\ views' = Append(views, [plaintext_len |-> u.plaintext_len])
                    /\ nviews' = nviews + 1
               ELSE UNCHANGED <<views, nviews>>
    /\ released' = unshield_released(shielded)
    /\ UNCHANGED <<buf, constructed, out, tampered, nonce_sequence, advances>>

\* The caller reads through the view: view.as_ref().
AsRef ==
    /\ Running /\ views # <<>>
    /\ out' = Some(as_ref(shielded, views[Len(views)]))
    /\ ran' = <<"as_ref">>
    /\ drawn' = <<>>
    /\ released' = <<>>
    /\ UNCHANGED <<buf, constructed, shielded, views, nviews, failure, calls,
                   tampered, nonce_sequence, advances>>

\* The view goes away and its Drop runs; how names what ended its scope.
\* The slice as_ref returned borrows from the view and ends with it.
DropView(how) ==
    /\ views # <<>>
    /\ views' = SubSeq(views, 1, Len(views) - 1)
    /\ out' = None
    /\ UNCHANGED <<buf, constructed, nviews, tampered, nonce_sequence, advances>>
    /\ \E rp \in RngOutcomes, rn \in RngOutcomes :
        \E o \in {drop(shielded, rp, rn)} :
            /\ shielded' = o.self
            /\ failure' = o.panic
            /\ calls' = calls \o o.made
            /\ ran' = how \o o.ran
            /\ drawn' = o.drawn
            /\ released' = shield_released(shielded, o)

\* The view's lexical scope ends (or the caller calls drop(view)).
ScopeEnd ==
    /\ Running
    /\ DropView(<<>>)

\* The caller's own code panics while the view is live: unwinding runs the
\* view's Drop.
CallerPanic ==
    /\ Running
    /\ DropView(<<"unwind">>)

\* Memory corruption while the container is sealed: one bit of the stored
\* ciphertext, of the stored tag or of the stored prekey flips.
Tamper ==
    /\ Running /\ constructed /\ views = <<>> /\ ~tampered
    /\ nviews < MaxViews
    /\ \E f \in {"memory", "prekey"} :
        \E i \in 1 .. Len(shielded[f]), bit \in 0 .. 7 :
            shielded' = [shielded EXCEPT ![f][i] = FlipBit(@, bit)]
    /\ tampered' = TRUE
    /\ ran' = <<"bitflip">>
    /\ drawn' = <<>>
    /\ released' = <<>>
    /\ UNCHANGED <<buf, constructed, views, nviews, out, failure, calls,
                   nonce_sequence, advances>>

Next == New \/ Unshield \/ AsRef \/ ScopeEnd \/ CallerPanic

Spec == Init /\ [][Next]_vars

\* The caller's code between unshield and the end of the view's scope is
\* synchronous and the scope is left: the view's Drop runs.
FairSpec == Spec /\ WF_vars(ScopeEnd)

NextTamper == Next \/ Tamper

\* The program in an environment that corrupts memory.
SpecTamper == Init /\ [][NextTamper]_vars


\* ------------------------------------------------- the nonce sequence alone
\* The nonces a sequence can be built with: what Nonce::try_assume_unique_
\* for_key accepts of what new_nonce returns, and the placeholder.
Nonces ==
    {n \in {RngStream(r, NONCE_LEN) : r \in RngSeeds}
               \cup {Vec(MAGIC_BYTE, NONCE_LEN)} : NonceFrom(n).ok}

\* OneNonceSequence::new(nonce)
NewSequence ==
    /\ Len(advances) < MaxSeqOps
    /\ \E n \in Nonces :
        /\ nonce_sequence' = OneNonceSequence(NonceFrom(n).val)
        /\ advances' = Append(advances, [op |-> "new", res |-> Ok(n)])
    /\ UNCHANGED crate

\* nonce_sequence.advance(), as the cipher's sealing and opening keys call it.
Advance ==
    /\ advances # <<>> /\ Len(advances) < MaxSeqOps
    /\ \E a \in {advance(nonce_sequence)} :
        /\ nonce_sequence' = a.ns
        /\ advances' = Append(advances, [op |-> "advance", res |-> a.res])
    /\ UNCHANGED crate

InitNonce == Init /\ buf = <<>>

NextNonce == NewSequence \/ Advance

\* Sequences built and advanced any number of times, in any order.
SpecNonce == InitNonce /\ [][NextNonce]_vars


\* ------------------------------------------------------------- properties
\* The container is observable: new has returned it, no view borrows it and
\* nothing has panicked.
AtRest == constructed /\ views = <<>> /\ Running

\* What the stored prekey and nonce make of the stored memory.
StoredOpen == OpenStored(shielded, FALSE).opened

\* The positions of the log that hold a call of kind op.
CallsOf(op) == {i \in 1 .. Len(calls) : calls[i].op = op}

\* C1: the first view of a container built from buffer b reads exactly b,
\* for the empty buffer and for buffers longer than the prekey alike.
C1_RoundTrip == (out.some /\ nviews = 1) => out.val = buf

C1_Witness ==
    /\ out.some /\ nviews = 1 /\ views # <<>>
    /\ Len(buf) > SHIELD_PREKEY_LEN
    /\ out.val = buf
    /\ SubSeq(shielded.memory, 1, Len(buf)) = buf
    /\ calls[1].op = "seal" /\ Encrypt(calls[1].key, calls[1].nonce, buf) # buf

\* C2: every view, the first and every later one, has as length the length
\* of the buffer passed to Shielded::new.
C2_ViewLenIsBufLen ==
    \A i \in 1 .. Len(views) : views[i].plaintext_len = Len(buf)

\* C3: whenever the container is sealed, after new and after each drop of a
\* view, its memory is as long as the original plaintext plus the tag.
C3_SealedLenIsBufPlusTag ==
    AtRest => Len(shielded.memory) = Len(buf) + TAG_LEN

RanCount(t, f) == Cardinality({i \in 1 .. Len(t) : t[i] = f})

\* A step that ends a view.
ViewEnds == views # <<>> /\ views' # views

\* A step that makes one more completed seal call.
SealDone ==
    /\ Len(calls') = Len(calls) + 1
    /\ calls'[Len(calls')].op = "seal"
    /\ calls'[Len(calls')].ok

\* C5: every successful unshield is eventually followed by the end of the
\* view, on scope end and on unwinding alike; the step that ends a view runs
\* Drop and shield exactly once and, unless the random source fails, makes
\* exactly one seal call; a reseal happens only in such a step; so the seal
\* calls made are the one of new plus one per ended view.
C5_ResealOncePerView ==
    /\ [](views # <<>> => <>(views = <<>>))
    /\ [][ViewEnds =>
            /\ Len(views') = Len(views) - 1
            /\ RanCount(ran', "drop") = 1 /\ RanCount(ran', "shield") = 1
            /\ IF failure' = "" THEN SealDone ELSE calls' = calls]_vars
    /\ [][(constructed /\ Len(calls') > Len(calls)
              /\ calls'[Len(calls')].op = "seal") => ViewEnds]_vars
    /\ []((constructed /\ Running) =>
            Cardinality(CallsOf("seal")) = 1 + nviews - Len(views))

C5_Witness ==
    /\ AtRest /\ nviews = MaxViews
    /\ ran = <<"unwind", "drop", "shield">>
    /\ Cardinality(CallsOf("seal")) = 1 + MaxViews

\* C6: at most one view is live; while one is live neither unshield nor new
\* can be called, and every step is a read through the view, which leaves
\* the container alone, or the end of that view.
C6_Exclusive ==
    /\ [](Len(views) <= 1)
    /\ [](views # <<>> => (~ENABLED Unshield /\ ~ENABLED New))
    /\ [][views # <<>> =>
            \/ ran' = <<"as_ref">> /\ shielded' = shielded /\ views' = views
                  /\ calls' = calls
            \/ RanCount(ran', "drop") = 1 /\ views' = <<>>]_vars

C6_Witness ==
    /\ Len(views) = 1 /\ nviews < MaxViews /\ ran = <<"as_ref">>
    /\ Running /\ constructed

\* SEALED: no view, and the stored prekey and nonce open the memory.
Sealed == views = <<>> /\ StoredOpen.ok

\* VIEWED: one view, and the memory holds the plaintext followed by the
\* bytes of one tag.
Viewed ==
    /\ Len(views) = 1
    /\ Len(shielded.memory) = views[1].plaintext_len + TAG_LEN
    /\ SubSeq(shielded.memory, 1, Len(buf)) = buf

C8_TamperDetected ==
    tampered =>
        /\ views = <<>>
        /\ ran \in {<<"bitflip">>, <<"unshield">>}
        /\ ran = <<"unshield">> =>
              (failure = "open in place" /\ ~calls[Len(calls)].ok)

C8_Witness ==
    /\ tampered /\ ran = <<"unshield">> /\ failure = "open in place"
    /\ nviews = 1 /\ views = <<>>
    /\ shielded.prekey # calls[Len(calls) - 1].aad

\* C9 as claimed: no prekey is used by two seal calls, and two seal calls
\* in a row (the one before a view and the reseal after it) differ in prekey
\* and in nonce.
C9_NoKeyMaterialReuse ==
    \A i, j \in CallsOf("seal") :
        i < j =>
            /\ calls[i].aad # calls[j].aad
            /\ (\A k \in CallsOf("seal") : ~(i < k /\ k < j)) =>
                  calls[i].nonce # calls[j].nonce

\* C9 as amended: after every shield that returned, in new and in every
\* reseal, the stored prekey and nonce are the two vectors the random source
\* returned in that call, and the seal call was made with exactly them.
C9_FreshDraw ==
    (Running /\ ran # <<>> /\ ran[Len(ran)] = "shield") =>
        /\ Len(drawn) = 2
        /\ shielded.prekey = drawn[1]
        /\ shielded.nonce = drawn[2]
        /\ calls[Len(calls)] =
               CipherCall("seal", prekey_to_key(drawn[1]), drawn[2], drawn[1], TRUE)

C9_Witness ==
    /\ AtRest /\ nviews = 1 /\ ran = <<"drop", "shield">>
    /\ shielded.prekey # calls[1].aad
    /\ shielded.nonce # calls[1].nonce
    /\ shielded.prekey = drawn[1] /\ shielded.nonce = drawn[2]

C11_KeyMaterialLengths ==
    constructed =>
        /\ Len(shielded.prekey) = SHIELD_PREKEY_LEN
        /\ Len(shielded.nonce) = NONCE_LEN

C11_Witness ==
    /\ AtRest /\ nviews = MaxViews /\ ran = <<"drop", "shield">>
    /\ Len(shielded.prekey) = SHIELD_PREKEY_LEN
    /\ Len(shielded.nonce) = NONCE_LEN
    /\ shielded.prekey # calls[1].aad

\* C12: the step that ends a view seals again exactly the bytes the view
\* exposed, memory[0 .. plaintext_len], so that what the stored prekey and
\* nonce open afterwards, which is what the next view is made of, is again
\* those bytes.
C12_DropResealsExposed ==
    [][(ViewEnds /\ failure' = "") =>
          OpenStored(shielded', FALSE).opened.plaintext =
              as_ref(shielded, views[Len(views)])]_vars

\* The seal call that produced what the open call at position i reads: the
\* last seal before it (0 when there is none).
SealBefore(i) ==
    IF \E j \in CallsOf("seal") : j < i
    THEN CHOOSE j \in CallsOf("seal") :
             j < i /\ \A k \in CallsOf("seal") : k < i => k <= j
    ELSE 0

\* C13: the key of every cipher call is prekey_to_key of the prekey passed
\* as AAD; every open call of unshield is made with the key, the nonce and
\* the AAD of the seal call that produced the memory it opens; and these are
\* the stored prekey and nonce, which the unshield leaves as they were.
C13_OpenMatchesSeal ==
    /\ \A i \in DOMAIN calls : calls[i].key = prekey_to_key(calls[i].aad)
    /\ \A i \in CallsOf("open") :
          /\ SealBefore(i) # 0
          /\ \A j \in {SealBefore(i)} :
                <<calls[i].key, calls[i].nonce, calls[i].aad>> =
                    <<calls[j].key, calls[j].nonce, calls[j].aad>>
    /\ ran = <<"unshield">> =>
          /\ calls[Len(calls)].op = "open"
          /\ calls[Len(calls)].aad = shielded.prekey
          /\ calls[Len(calls)].nonce = shielded.nonce

C13_Witness ==
    /\ Running /\ ran = <<"unshield">> /\ nviews = MaxViews
    /\ calls[Len(calls)].op = "open" /\ calls[Len(calls)].ok
    /\ calls[Len(calls)].aad = calls[Len(calls) - 1].aad
    /\ calls[Len(calls)].key = prekey_to_key(shielded.prekey)
    /\ calls[Len(calls)].aad # calls[1].aad

\* C14: an open_in_place that fails makes unshield panic and nothing else:
\* the failed call is the last cipher call ever made (no reseal follows it),
\* it produced no view (the views produced are the open calls that
\* succeeded, and none is live), the seal calls are still the one of new and
\* one per view that ended, and no operation runs after it.
C14_AuthFailureTerminal ==
    /\ \A i \in DOMAIN calls :
          ~calls[i].ok =>
              /\ calls[i].op = "open" /\ i = Len(calls)
              /\ failure = "open in place"
    /\ failure = "open in place" =>
          /\ ran = <<"unshield">>
          /\ ~calls[Len(calls)].ok
          /\ views = <<>>
          /\ Cardinality(CallsOf("open")) = nviews + 1
          /\ Cardinality(CallsOf("seal")) = nviews + 1
          /\ ~ENABLED NextTamper

C14_Witness ==
    /\ failure = "open in place" /\ views = <<>> /\ nviews = 1
    /\ Len(calls) = 4 /\ ~calls[4].ok /\ calls[3].op = "seal"
    /\ shielded.memory # Vec(0, Len(shielded.memory))

\* The panics of new_prekey and new_nonce.
RngFailures == {"rng fill prekey", "rng fill"}

\* C15: whenever the random source fails in one of the two draws of a shield
\* call, in new or in the reseal of a view's Drop, the call panics in
\* new_prekey or new_nonce without having made a cipher call and without
\* having written the container; after such a panic in new no container
\* exists and no cipher call was ever made, and after such a panic in a
\* reseal the last cipher call is still the open of the view and the stored
\* prekey and nonce are still those of that open.
C15_RngFailureFatal ==
    /\ \A rp \in RngOutcomes, rn \in RngOutcomes :
          (rp = 0 \/ rn = 0) =>
              /\ (Running /\ ~constructed) =>
                    \A o \in {new(buf, rp, rn)} :
                        o.panic \in RngFailures /\ o.made = <<>>
              /\ (Running /\ views # <<>>) =>
                    \A o \in {drop(shielded, rp, rn)} :
                        /\ o.panic \in RngFailures /\ o.made = <<>>
                        /\ o.self = shielded
    /\ failure \in RngFailures =>
          /\ Len(drawn) < 2
          /\ IF RanCount(ran, "new") = 1
             THEN ~constructed /\ calls = <<>>
             ELSE /\ RanCount(ran, "drop") = 1
                  /\ calls[Len(calls)].op = "open"
                  /\ Cardinality(CallsOf("seal")) = nviews
                  /\ shielded.prekey = calls[Len(calls)].aad
                  /\ shielded.nonce = calls[Len(calls)].nonce

C15_Witness ==
    /\ failure = "rng fill" /\ RanCount(ran, "drop") = 1
    /\ nviews = MaxViews /\ Len(drawn) = 1
    /\ calls[Len(calls)].op = "open"

\* C16: the first advance on a sequence returns the nonce the sequence was
\* built with; every later advance on the same sequence returns the error;
\* once advanced, the sequence holds no nonce.
C16_OneShot ==
    /\ \A i \in DOMAIN advances :
          advances[i].op = "advance" =>
              /\ i > 1
              /\ advances[i].res =
                     (IF advances[i - 1].op = "new" THEN advances[i - 1].res
                      ELSE Unspecified)
    /\ (advances # <<>> /\ advances[Len(advances)].op = "advance") =>
          ~nonce_sequence.some

C16_Witness ==
    /\ Len(advances) = MaxSeqOps
    /\ advances[MaxSeqOps - 2].op = "new"
    /\ advances[MaxSeqOps - 1] =
           [op |-> "advance", res |-> advances[MaxSeqOps - 2].res]
    /\ advances[MaxSeqOps] = [op |-> "advance", res |-> Unspecified]

\* C17: a step of unshield, whether it returns a view or panics, leaves the
\* stored prekey and nonce as they were; a step of as_ref leaves the whole
\* container and the view's plaintext_len as they were; and a step of the
\* program that changes the stored prekey or nonce of a constructed
\* container is one whose shield call returned.
C17_Frame ==
    [][/\ ran' = <<"unshield">> =>
             /\ shielded'.prekey = shielded.prekey
             /\ shielded'.nonce = shielded.nonce
       /\ ran' = <<"as_ref">> =>
             /\ shielded' = shielded
             /\ views' = views
       /\ (/\ constructed /\ ran' # <<"bitflip">>
           /\ \/ shielded'.prekey # shielded.prekey
              \/ shielded'.nonce # shielded.nonce) =>
             (ran'[Len(ran')] = "shield" /\ failure' = "")]_vars

C17_Witness ==
    /\ Running /\ ran = <<"as_ref">> /\ nviews = MaxViews /\ out.some
    /\ calls[Len(calls)].op = "open"
    /\ shielded.prekey = calls[Len(calls)].aad
    /\ shielded.nonce = calls[Len(calls)].nonce
    /\ views[1].plaintext_len = Len(out.val)
    /\ shielded.nonce # Vec(MAGIC_BYTE, NONCE_LEN)

\* C18: the container has no field for the derived key; the key of the
\* cipher call an operation makes is derived in that operation from the
\* prekey it uses; the vector that held the key is all zeros when the
\* operation releases it; and a reseal releases the prekey and the nonce it
\* supersedes.
C18_DerivedKeyEphemeral ==
    /\ DOMAIN shielded = {"prekey", "nonce", "memory"}
    /\ (Running /\ ran # <<>> /\ ran # <<"as_ref">>) =>
          \E i \in DOMAIN released :
              /\ released[i].what = "key"
              /\ calls[Len(calls)].key = prekey_to_key(calls[Len(calls)].aad)
    /\ \A i \in DOMAIN released :
          released[i].what = "key" => released[i].bytes = Vec(0, KEY_LEN)
    /\ (Running /\ RanCount(ran, "drop") = 1) =>
          /\ released[1] = Release("prekey", calls[Len(calls) - 1].aad)
          /\ released[2] = Release("nonce", calls[Len(calls) - 1].nonce)

============================================================================
